---- MODULE Spec2Model ----
(***************************************************************************)
(* Model of the Jules comment decision engine of src/update_jules.py (the  *)
(* TypeScript it installs into src/lib/jules.ts):                          *)
(*   analyzeLatestJulesComment  - the latest-comment resolver              *)
(*   checkJulesComments         - the bounded-retry wrapper around it      *)
(* Time is counted in whole minutes.  A result is a record whose DOMAIN is *)
(* the set of keys of the JavaScript object the code returns.              *)
(***************************************************************************)
EXTENDS Integers, Sequences, FiniteSets, TLC

\* ------------------------------------------------------------------ bounds
MaxComments == 2          \* longest comment list a fetch returns
MaxRetriesArg == 2        \* largest maxRetries argument tried
MaxRetriesLong == 4       \* largest maxRetries argument tried on short lists

\* ------------------------------------------------------- program constants
StaleMinutes == 120       \* analysis.age_minutes > 120
RecentMinutes == 30       \* (Date.now() - created_at) / (1000 * 60) < 30
initialDelay == 1000      \* initialDelay: 1000
backoffFactor == 2        \* backoffFactor: 2

\* ------------------------------------------------------------ input domains
\* Clock readings (minutes) and creation times: chosen so that ages fall on
\* both sides of 30 (29, 30) and of 120 (120, 121).
Times == {150, 151}
CreatedTimes == {30, 121, 150}
JulesLogin == "google-labs-jules[bot]"
NoUser == [login |-> "<null>", present |-> FALSE]
Users == {[login |-> JulesLogin, present |-> TRUE],
          [login |-> "octocat", present |-> TRUE],
          NoUser}
Classifications == {"task_limit", "working"}
Confidences == {50, 60}
MinConfidences == {50, 60}
Bodies == [classification : Classifications, confidence : Confidences]

\* What a comment can be, apart from its id.  The body of a comment is
\* represented by what the analyzer reads from it.
BotKinds == [user : {[login |-> JulesLogin, present |-> TRUE]},
             created_at : CreatedTimes, body : Bodies]
OtherKinds == [user : Users \ {[login |-> JulesLogin, present |-> TRUE]},
               created_at : {150},
               body : {[classification |-> "task_limit", confidence |-> 60]}]
Kinds == BotKinds \cup OtherKinds

WithIds(f) ==
    [i \in DOMAIN f |-> [id |-> i, user |-> f[i].user,
                         created_at |-> f[i].created_at, body |-> f[i].body]]

\* Every comment list githubClient.getIssueComments can return: comment ids
\* are unique (the position in the list).
CommentLists == {WithIds(f) : f \in UNION {[1..n -> Kinds] : n \in 0..MaxComments}}

\* The lists of at most one comment.
ShortLists == {cs \in CommentLists : Len(cs) <= 1}

\* What the environment does to one call of the resolver: whether
\* getIssueComments rejects, and which analyzeComment call (1, 2) throws
\* (0: none).
NoFault == [fetch |-> FALSE, analyzer |-> 0]
Faults == {NoFault, [fetch |-> TRUE, analyzer |-> 0],
           [fetch |-> FALSE, analyzer |-> 1], [fetch |-> FALSE, analyzer |-> 2]}

\* ------------------------------------------------------ external collaborators
\* isJulesBot(login): the bot identity check.
isJulesBot(login) == login = JulesLogin

\* analyzeComment(comment) evaluated at clock reading t: classification and
\* confidence come from the body, age_minutes from the call time.
analyzeComment(comment, t) ==
    [classification |-> comment.body.classification,
     confidence |-> comment.body.confidence,
     age_minutes |-> t - comment.created_at]

\* ----------------------------------------------- analyzeLatestJulesComment
\* Faulty variant: the author filter keeps every comment that has a user.
IsJulesComment_AnyUser(comment) == comment.user.present

\* comments.filter((comment) => comment.user && isJulesBot(comment.user.login))
IsJulesComment(comment) == comment.user.present /\ isJulesBot(comment.user.login)

\* Array.prototype.sort with the comparator
\*   new Date(b.created_at).getTime() - new Date(a.created_at).getTime():
\* a stable sort, most recent first; equal timestamps keep their input order.
RECURSIVE InsertDesc(_, _)
InsertDesc(sorted, c) ==
    IF sorted = <<>> THEN <<c>>
    ELSE IF Head(sorted).created_at >= c.created_at
         THEN <<Head(sorted)>> \o InsertDesc(Tail(sorted), c)
         ELSE <<c>> \o sorted

RECURSIVE SortDesc(_)
SortDesc(s) ==
    IF s = <<>> THEN <<>>
    ELSE InsertDesc(SortDesc(SubSeq(s, 1, Len(s) - 1)), s[Len(s)])

\* Faulty variant: the bot comments are left in the order of the fetch.
julesCommentsOf_Unsorted(comments) == SelectSeq(comments, IsJulesComment)

julesCommentsOf(comments) == SortDesc(SelectSeq(comments, IsJulesComment))

\* Faulty variant: no recency window, every bot comment counts as recent.
recentCommentsOf_NoWindow(julesComments, t) == julesComments

\* Faulty variant: the recency window includes an age of exactly 30 minutes.
recentCommentsOf_Inclusive(julesComments, t) ==
    LET IsRecent(comment) == t - comment.created_at <= RecentMinutes
    IN SelectSeq(julesComments, IsRecent)

\* julesComments.filter((comment) => (Date.now() - created_at) / (1000 * 60) < 30)
recentCommentsOf(julesComments, t) ==
    LET IsRecent(comment) == t - comment.created_at < RecentMinutes
    IN SelectSeq(julesComments, IsRecent)

\* Outcomes of one call of the resolver: a returned result, or an error
\* thrown to the caller.  path names the return statement taken, analyzed
\* lists the comments handed to analyzeComment, in call order; calls counts
\* the analyzeComment calls made before an error was thrown.
Returned(value, path, analyzed) ==
    [kind |-> "return", value |-> value, path |-> path, analyzed |-> analyzed]
\* Faulty variant: the resolver swallows the error and answers unknown.
Thrown_Swallowed(error, calls) ==
    [kind |-> "return", value |-> [action |-> "unknown"], path |-> "swallowed",
     analyzed |-> <<>>]

Thrown(error, calls) ==
    [kind |-> "throw", error |-> error, calls |-> calls]

\* if (julesComments.length === 0) { ...; return { action: "no_action" }; }
NoComments == Returned([action |-> "no_action"], "no_comments", <<>>)

StaleResult(latestComment, analysis) ==
    [action |-> "no_action", comment |-> latestComment, analysis |-> analysis]

\* Faulty variants: the fallback attaches the first comment, or keeps the
\* first analysis next to the second comment.
SecondResult_AttachesFirst(second, secondAnalysis, latestComment, analysis) ==
    [action |-> secondAnalysis.classification, comment |-> latestComment,
     analysis |-> analysis]
SecondResult_KeepsFirstAnalysis(second, secondAnalysis, latestComment, analysis) ==
    [action |-> secondAnalysis.classification, comment |-> second,
     analysis |-> analysis]

SecondResult(second, secondAnalysis, latestComment, analysis) ==
    [action |-> secondAnalysis.classification, comment |-> second,
     analysis |-> secondAnalysis]

UnknownResult(latestComment, analysis) ==
    [action |-> "unknown", comment |-> latestComment, analysis |-> analysis]

SuccessResult(latestComment, analysis) ==
    [action |-> analysis.classification, comment |-> latestComment,
     analysis |-> analysis]

\* The low-confidence branch (lines 77-112).  t1 is the Date.now() of the
\* recency filter; failAt = 2 makes the second analyzeComment call throw.
LowConfidence(julesComments, latestComment, analysis, minConfidence, t1, failAt) ==
    LET recentComments == recentCommentsOf(julesComments, t1)
    IN IF Len(recentComments) > 1
       THEN IF failAt = 2
            THEN Thrown("analyzer", 2)
            ELSE LET secondAnalysis == analyzeComment(recentComments[2], t1)
                 IN IF secondAnalysis.confidence >= minConfidence
                    THEN Returned(SecondResult(recentComments[2], secondAnalysis,
                                               latestComment, analysis),
                                  "second", <<latestComment, recentComments[2]>>)
                    ELSE Returned(UnknownResult(latestComment, analysis),
                                  "unknown", <<latestComment, recentComments[2]>>)
       ELSE Returned(UnknownResult(latestComment, analysis),
                     "unknown", <<latestComment>>)

\* Faulty variants: confidence is checked before staleness; a confidence
\* equal to the threshold counts as uncertain.
Decide_ConfidenceFirst(julesComments, latestComment, analysis, minConfidence, t1, failAt) ==
    IF analysis.confidence < minConfidence
    THEN LowConfidence(julesComments, latestComment, analysis,
                       minConfidence, t1, failAt)
    ELSE IF analysis.age_minutes > StaleMinutes
         THEN Returned(StaleResult(latestComment, analysis), "stale", <<latestComment>>)
         ELSE Returned(SuccessResult(latestComment, analysis),
                       "success", <<latestComment>>)
Decide_StrictThreshold(julesComments, latestComment, analysis, minConfidence, t1, failAt) ==
    IF analysis.age_minutes > StaleMinutes
    THEN Returned(StaleResult(latestComment, analysis), "stale", <<latestComment>>)
    ELSE IF analysis.confidence <= minConfidence
         THEN LowConfidence(julesComments, latestComment, analysis,
                            minConfidence, t1, failAt)
         ELSE Returned(SuccessResult(latestComment, analysis),
                       "success", <<latestComment>>)

\* The decision on the most recent bot comment, once analyzed (lines 64-119).
Decide(julesComments, latestComment, analysis, minConfidence, t1, failAt) ==
    IF analysis.age_minutes > StaleMinutes
    THEN Returned(StaleResult(latestComment, analysis), "stale", <<latestComment>>)
    ELSE IF analysis.confidence < minConfidence
         THEN LowConfidence(julesComments, latestComment, analysis,
                            minConfidence, t1, failAt)
         ELSE Returned(SuccessResult(latestComment, analysis),
                       "success", <<latestComment>>)

\* analyzeLatestJulesComment on the fetched list `comments`.  t0 is the clock
\* reading of the first analyzeComment call, t1 >= t0 that of the recency
\* filter and the second call.  fetchFails: getIssueComments rejects.
\* failAt: the number (1, 2) of the analyzeComment call that throws, 0: none.
analyzeLatestJulesComment(comments, minConfidence, t0, t1, fetchFails, failAt) ==
    IF fetchFails THEN Thrown("fetch", 0)
    ELSE LET julesComments == julesCommentsOf(comments)
         IN IF Len(julesComments) = 0
            THEN NoComments
            ELSE LET latestComment == julesComments[1]
                 IN IF failAt = 1
                    THEN Thrown("analyzer", 1)
                    ELSE Decide(julesComments, latestComment,
                                analyzeComment(latestComment, t0),
                                minConfidence, t1, failAt)

\* ------------------------------------------------------------------ retry
\* retry(fn, {maxRetries, initialDelay, backoffFactor, onRetry}) of
\* "@/lib/retry": fn(attempt) is tried for attempt = 0 .. maxRetries - 1; the
\* first attempt that returns ends the loop with {result, lastAttempt}; a
\* failed attempt calls onRetry(error, attempt) and, when another attempt
\* follows, waits initialDelay * backoffFactor^attempt; when no attempt is
\* left the last error is thrown.  An error thrown by onRetry itself leaves
\* retry as any other exception does.
RetryOk(result, lastAttempt) ==
    [kind |-> "ok", result |-> result, lastAttempt |-> lastAttempt]
RetryThrown(error) == [kind |-> "throw", error |-> error]

RetryDelay(options, i) == options.initialDelay * options.backoffFactor ^ i

HasNextAttempt(options, i) == i < options.maxRetries - 1

HasAttempts(options) == 0 < options.maxRetries

\* ------------------------------------------------------ checkJulesComments
\* Faulty variant: the list of an earlier attempt is kept and used again.
FetchedFor_Cached(fresh, earlier) == IF earlier # <<>> THEN earlier ELSE fresh

\* const comments = await githubClient.getIssueComments(...) (lines 30-36):
\* every call of the resolver works on the list its own fetch returned,
\* whatever an earlier call fetched.
FetchedFor(fresh, earlier) == fresh

\* Faulty variants: one retry more than asked for; a delay that never grows.
RetryOptions_ExtraAttempt(maxRetriesArg) ==
    [maxRetries |-> maxRetriesArg + 1,
     initialDelay |-> initialDelay,
     backoffFactor |-> backoffFactor]
RetryOptions_ConstantDelay(maxRetriesArg) ==
    [maxRetries |-> maxRetriesArg,
     initialDelay |-> initialDelay,
     backoffFactor |-> 1]

\* The options handed to retry (lines 154-164).
RetryOptions(maxRetriesArg) ==
    [maxRetries |-> maxRetriesArg,
     initialDelay |-> initialDelay,
     backoffFactor |-> backoffFactor]

\* Faulty variant: the hook throws.
onRetry_Throws(error, i) == [kind |-> "throw", error |-> "hook", attempt |-> i]

\* onRetry: (error, attempt) => { logger.error({ error }, `Attempt ...`) }
\* (lines 158-163): it logs and returns.
onRetry(error, i) == [kind |-> "logged", error |-> error, attempt |-> i]

\* Faulty variant: the callback turns an undecided result into an error, so
\* that retry tries again.
Callback_RetriesUndecided(r) ==
    IF r.kind = "return" /\ r.value.action \in {"unknown", "no_action"}
    THEN Thrown("undecided", Len(r.analyzed))
    ELSE r

\* The callback handed to retry (lines 140-153): it returns whatever
\* analyzeLatestJulesComment returns and throws whatever it throws.
Callback(r) == r

\* Faulty variant: retryCount counts the attempts made, not the index of the
\* last one.
MergeRetryCount_Counts(result, lastAttempt) == [retryCount |-> lastAttempt + 1] @@ result

\* return { ...result, retryCount: lastAttempt };
MergeRetryCount(result, lastAttempt) == [retryCount |-> lastAttempt] @@ result

\* Faulty variants: the catch block rethrows; the catch block reports the
\* index of the last attempt.
CatchResult_Rethrows(error, maxRetriesArg) == [kind |-> "throw", error |-> error]
CatchResult_LastIndex(error, maxRetriesArg) ==
    [kind |-> "return",
     value |-> [action |-> "no_action", retryCount |-> maxRetriesArg - 1]]

\* catch (error) { ...; return { action: "no_action", retryCount: maxRetries }; }
CatchResult(error, maxRetriesArg) ==
    [kind |-> "return",
     value |-> [action |-> "no_action", retryCount |-> maxRetriesArg]]

\* The try/catch around retry (lines 138-178): what the caller of
\* checkJulesComments observes for an outcome of retry.
TryCatch(retryOutcome, maxRetriesArg) ==
    IF retryOutcome.kind = "ok"
    THEN [kind |-> "return",
          value |-> MergeRetryCount(retryOutcome.result, retryOutcome.lastAttempt)]
    ELSE CatchResult(retryOutcome.error, maxRetriesArg)

\* ------------------------------------------------------------------- state
VARIABLES
    pc,             \* "idle", "fetching" (awaiting the fetch of an attempt),
                    \* "sleeping" (awaiting the backoff delay), "done";
                    \* "resolved" after a direct call of the resolver
    maxRetries,     \* argument of checkJulesComments
    minConfidence,  \* argument of checkJulesComments
    attempt,        \* retry's loop variable
    now,            \* latest clock reading (minutes)
    fetched,        \* comment list the comment source answers with; a failed
                    \* attempt discards its list (<<>>) unless the run keeps
                    \* track of the lists (RetrySpec)
    analyzedAt,     \* clock reading of the latest attempt's first analysis
    res,            \* outcome of the latest call of analyzeLatestJulesComment
    out,            \* what the caller of checkJulesComments has observed
    log,            \* outcome of every attempt so far, in order
    hooks,          \* onRetry invocations so far: [error, attempt]
    delays,         \* backoff delays (ms) waited or being waited so far
    fetches,        \* number of getIssueComments calls so far
    fault,          \* what the environment does to the resolver call in
                    \* flight (NoFault when none is); a direct call keeps it
    previous        \* the list the attempt before the latest one fetched,
                    \* where the run keeps track of it (RetrySpec)

vars == <<pc, maxRetries, minConfidence, attempt, now, fetched, analyzedAt,
          res, out, log, hooks, delays, fetches, fault, previous>>

NoneYet == [kind |-> "none"]
Pending == [kind |-> "pending"]

Init ==
    /\ pc = "idle"
    /\ maxRetries \in 0..MaxRetriesArg
    /\ minConfidence \in MinConfidences
    /\ attempt = 0
    /\ now \in Times
    /\ fetched = <<>>
    /\ analyzedAt = now
    /\ res = NoneYet
    /\ out = Pending
    /\ log = <<>>
    /\ hooks = <<>>
    /\ delays = <<>>
    /\ fetches = 0
    /\ fault = NoFault
    /\ previous = <<>>

\* checkJulesComments is called: retry starts attempt 0, or, with no attempt
\* to make, throws at once into the catch block.
Call ==
    /\ pc = "idle"
    /\ IF HasAttempts(RetryOptions(maxRetries))
       THEN /\ pc' = "fetching"
            /\ out' = out
            /\ fault' \in Faults
       ELSE /\ pc' = "done"
            /\ out' = TryCatch(RetryThrown("no attempts"), maxRetries)
            /\ fault' = fault
    /\ UNCHANGED <<maxRetries, minConfidence, attempt, now, fetched, analyzedAt,
                   res, log, hooks, delays, fetches, previous>>

\* The fetch of the current attempt settles and the rest of
\* analyzeLatestJulesComment runs; retry then returns, schedules the backoff
\* wait, or gives up, and checkJulesComments returns accordingly.  The
\* source answers with a list of `lists`; `track` keeps the list of the
\* attempt before in `previous`.
AttemptOn(lists, track) ==
    /\ pc = "fetching"
    /\ \E t0 \in Times, t1 \in Times, fresh \in lists :
        /\ now <= t0
        /\ t0 <= t1
        /\ fault.fetch => (fresh = <<>> /\ t1 = t0)
        /\ LET options == RetryOptions(maxRetries)
               comments == FetchedFor(fresh, fetched)
               r == analyzeLatestJulesComment(comments, minConfidence, t0, t1,
                                              fault.fetch, fault.analyzer)
               f == Callback(r)
               h == onRetry(f.error, attempt)
           IN /\ res' = r
              /\ fetched' = IF track \/ r.kind = "return" THEN fresh ELSE <<>>
              /\ previous' = IF track THEN fetched ELSE <<>>
              /\ analyzedAt' = t0
              /\ now' = t1
              /\ fetches' = fetches + 1
              /\ fault' = NoFault
              /\ log' = Append(log, [attempt |-> attempt, kind |-> f.kind,
                                     error |-> IF f.kind = "throw"
                                               THEN f.error ELSE "none"])
              /\ IF f.kind = "return"
                 THEN /\ out' = TryCatch(RetryOk(f.value, attempt), maxRetries)
                      /\ pc' = "done"
                      /\ UNCHANGED <<hooks, delays>>
                 ELSE IF h.kind = "throw"
                 THEN /\ out' = TryCatch(RetryThrown(h.error), maxRetries)
                      /\ pc' = "done"
                      /\ UNCHANGED <<hooks, delays>>
                 ELSE /\ hooks' = Append(hooks, [error |-> h.error,
                                                 attempt |-> h.attempt])
                      /\ IF HasNextAttempt(options, attempt)
                         THEN /\ delays' = Append(delays, RetryDelay(options, attempt))
                              /\ pc' = "sleeping"
                              /\ out' = out
                         ELSE /\ delays' = delays
                              /\ pc' = "done"
                              /\ out' = TryCatch(RetryThrown(f.error), maxRetries)
    /\ UNCHANGED <<maxRetries, minConfidence, attempt>>

Attempt == AttemptOn(CommentLists, FALSE)

\* The backoff wait ends: the loop variable advances and the next attempt
\* issues its fetch.
Backoff ==
    /\ pc = "sleeping"
    /\ pc' = "fetching"
    /\ attempt' = attempt + 1
    /\ \E t \in Times : now <= t /\ now' = t
    /\ fault' \in Faults
    /\ UNCHANGED <<maxRetries, minConfidence, fetched, analyzedAt, res, out,
                   log, hooks, delays, fetches, previous>>

Next == Call \/ Attempt \/ Backoff

Spec == Init /\ [][Next]_vars

\* ------------------------------------------------- the retry loop at length
\* checkJulesComments with more attempts, on an issue that holds at most one
\* comment at a time; the list each attempt fetched is kept for the next.
InitRetry ==
    /\ pc = "idle"
    /\ maxRetries \in 0..MaxRetriesLong
    /\ minConfidence \in MinConfidences
    /\ attempt = 0
    /\ now \in Times
    /\ fetched = <<>>
    /\ analyzedAt = now
    /\ res = NoneYet
    /\ out = Pending
    /\ log = <<>>
    /\ hooks = <<>>
    /\ delays = <<>>
    /\ fetches = 0
    /\ fault = NoFault
    /\ previous = <<>>

AttemptShort == AttemptOn(ShortLists, TRUE)

NextRetry == Call \/ AttemptShort \/ Backoff

RetrySpec == InitRetry /\ [][NextRetry]_vars

\* The same run without the record of the list fetched before.  An awaited
\* fetch settles (it resolves or rejects) and a backoff timer fires: a
\* pending step of the run is eventually taken.
AttemptLoop == AttemptOn(ShortLists, FALSE)

NextLoop == Call \/ AttemptLoop \/ Backoff

FairRetrySpec == InitRetry /\ [][NextLoop]_vars /\ WF_vars(NextLoop)

\* ------------------------------------------------ the resolver on its own
\* analyzeLatestJulesComment called directly (it is exported): the inputs
\* are drawn in the initial state and one action applies the function.
InitResolve ==
    /\ pc = "idle"
    /\ maxRetries = 0
    /\ minConfidence \in MinConfidences
    /\ attempt = 0
    /\ now \in Times
    /\ fetched \in CommentLists
    /\ analyzedAt = now
    /\ res = NoneYet
    /\ out = Pending
    /\ log = <<>>
    /\ hooks = <<>>
    /\ delays = <<>>
    /\ fetches = 0
    /\ fault \in Faults
    /\ previous = <<>>

Resolve ==
    /\ pc = "idle"
    /\ pc' = "resolved"
    /\ \E t0 \in Times, t1 \in Times :
        /\ now <= t0
        /\ t0 <= t1
        /\ fault.fetch => t1 = t0
        /\ res' = analyzeLatestJulesComment(fetched, minConfidence, t0, t1,
                                            fault.fetch, fault.analyzer)
        /\ analyzedAt' = t0
        /\ now' = t1
    /\ fetches' = fetches + 1
    /\ UNCHANGED <<maxRetries, minConfidence, attempt, fetched, out, log,
                   hooks, delays, fault, previous>>

NextResolve == Resolve

ResolveSpec == InitResolve /\ [][NextResolve]_vars

\* ------------------------------------------------- vocabulary of the claims
\* The bot-authored comments of a list, by index.
BotIdx(cs) ==
    {i \in DOMAIN cs : cs[i].user.present /\ cs[i].user.login = JulesLogin}

\* Comment i precedes comment j in most-recent-first order (equal creation
\* times: list order).
Newer(cs, i, j) ==
    \/ cs[i].created_at > cs[j].created_at
    \/ cs[i].created_at = cs[j].created_at /\ i < j

\* The index, among the indices S, with exactly n - 1 comments before it.
NthNewest(cs, S, n) ==
    CHOOSE j \in S : Cardinality({i \in S : Newer(cs, i, j)}) = n - 1

MostRecent(cs) == cs[NthNewest(cs, BotIdx(cs), 1)]

\* The bot comments younger than 30 minutes at clock reading t.
RecentIdx(cs, t) == {i \in BotIdx(cs) : t - cs[i].created_at < 30}

SecondRecent(cs, t) == cs[NthNewest(cs, RecentIdx(cs, t), 2)]

AnalysisOf(c, t) ==
    [classification |-> c.body.classification,
     confidence |-> c.body.confidence,
     age_minutes |-> t - c.created_at]

\* A result without its retryCount key.
WithoutRetryCount(v) == [k \in DOMAIN v \ {"retryCount"} |-> v[k]]

AllAttemptsThrew ==
    /\ Len(log) = maxRetries
    /\ \A i \in 1..Len(log) : log[i].kind = "throw"

\* The direct resolver call has answered and its fetch did not fail.
Resolved == pc = "resolved" /\ ~(res.kind = "throw" /\ res.error = "fetch")

\* The direct resolver call returned a result decided on a bot comment.
Decided == Resolved /\ res.kind = "return" /\ BotIdx(fetched) # {}

LatestAge == analyzedAt - MostRecent(fetched).created_at
LatestConfidence == MostRecent(fetched).body.confidence

\* ------------------------------------------------------------------ claims
\* C1: a run of checkJulesComments, whatever the fetch or the analyzer throws,
\* ends by returning a DecisionResult; no error ever reaches its caller.
C1_NeverPropagates ==
    /\ out.kind \in {"pending", "return"}
    /\ pc = "done" => out.kind = "return" /\ "action" \in DOMAIN out.value
    /\ pc # "done" => out = Pending

C1_Witness ==
    /\ pc = "done"
    /\ Len(hooks) = 2
    /\ hooks[1].error = "fetch"
    /\ hooks[2].error = "analyzer"
    /\ AllAttemptsThrew

\* C2: when every one of the maxRetries attempts throws, checkJulesComments
\* returns exactly {action: no_action, retryCount: maxRetries}.
C2_ExhaustedDefault ==
    (pc = "done" /\ AllAttemptsThrew) =>
        /\ out.kind = "return"
        /\ out.value = [action |-> "no_action", retryCount |-> maxRetries]

C2_Witness ==
    /\ pc = "done"
    /\ AllAttemptsThrew
    /\ maxRetries >= 2
    /\ fetches = maxRetries

\* C3: when attempts 0..k-1 throw and attempt k returns, checkJulesComments
\* returns that attempt's result unchanged, with retryCount = k.
C3_SuccessAtK ==
    (pc = "done" /\ log # <<>> /\ log[Len(log)].kind = "return") =>
        /\ \A i \in 1..(Len(log) - 1) : log[i].kind = "throw"
        /\ res.kind = "return"
        /\ out.kind = "return"
        /\ out.value.retryCount = Len(log) - 1
        /\ WithoutRetryCount(out.value) = res.value

C3_Witness ==
    /\ pc = "done"
    /\ Len(log) >= 2
    /\ log[Len(log)].kind = "return"
    /\ res.path = "second"
    /\ out.value.retryCount = Len(log) - 1

\* C4: an attempt that returns (no bot comments, stale, unknown included) is
\* the last one: no attempt and no fetch follows it, and its result is what
\* checkJulesComments returns.
C4_NoRetryOnResult ==
    res.kind = "return" =>
        /\ pc = "done"
        /\ fetches = Len(log)
        /\ log[Len(log)].kind = "return"
        /\ \A i \in 1..(Len(log) - 1) : log[i].kind = "throw"
        /\ out.kind = "return"
        /\ WithoutRetryCount(out.value) = res.value

C4_Witness ==
    /\ pc = "done"
    /\ res.kind = "return"
    /\ res.path = "unknown"
    /\ fetches = 1
    /\ maxRetries >= 2

\* C5: on a fetched list without bot-authored comment (the empty list
\* included) the resolver returns exactly {action: no_action} and never calls
\* the analyzer.
C5_NoBotComments ==
    (Resolved /\ BotIdx(fetched) = {}) =>
        /\ res.kind = "return"
        /\ res.value = [action |-> "no_action"]
        /\ res.analyzed = <<>>

C5_Witness ==
    /\ Resolved
    /\ BotIdx(fetched) = {}
    /\ \E i \in DOMAIN fetched : ~fetched[i].user.present
    /\ \E i \in DOMAIN fetched : fetched[i].user.login = "octocat"
    /\ res.kind = "return"

\* C6: when the most recent bot comment is older than 120 minutes the
\* resolver returns no_action with that comment and its analysis, whatever
\* the classification, the confidence and minConfidence; the low-confidence
\* fallback is not entered (one analysis only).
C6_StalenessDominates ==
    (Decided /\ LatestAge > 120) =>
        /\ res.value = [action |-> "no_action",
                        comment |-> MostRecent(fetched),
                        analysis |-> AnalysisOf(MostRecent(fetched), analyzedAt)]
        /\ res.path = "stale"
        /\ res.analyzed = <<MostRecent(fetched)>>

C6_Witness ==
    /\ Decided
    /\ LatestAge = 121
    /\ LatestConfidence < minConfidence
    /\ Cardinality(BotIdx(fetched)) = 2
    /\ res.value.action = "no_action"

\* C7: when the most recent bot comment is at most 120 minutes old and its
\* confidence is at least minConfidence, the resolver returns its
\* classification with that comment and its analysis.
C7_ConfidentFresh ==
    (Decided /\ LatestAge <= 120 /\ LatestConfidence >= minConfidence) =>
        res.value = [action |-> MostRecent(fetched).body.classification,
                     comment |-> MostRecent(fetched),
                     analysis |-> AnalysisOf(MostRecent(fetched), analyzedAt)]

C7_Witness ==
    /\ Decided
    /\ LatestAge = 120
    /\ LatestConfidence = minConfidence
    /\ Len(fetched) = 2
    /\ MostRecent(fetched).id = 2
    /\ res.value.action = MostRecent(fetched).body.classification

\* C8: when the most recent bot comment is fresh and below minConfidence,
\* more than one bot comment is younger than 30 minutes and the second of
\* them reaches minConfidence, the resolver returns the second comment's
\* classification with the second comment and the second analysis.
C8_SecondComment ==
    (/\ Decided
     /\ LatestAge <= 120
     /\ LatestConfidence < minConfidence
     /\ Cardinality(RecentIdx(fetched, now)) > 1
     /\ SecondRecent(fetched, now).body.confidence >= minConfidence) =>
        res.value = [action |-> SecondRecent(fetched, now).body.classification,
                     comment |-> SecondRecent(fetched, now),
                     analysis |-> AnalysisOf(SecondRecent(fetched, now), now)]

C8_Witness ==
    /\ Decided
    /\ res.path = "second"
    /\ res.value.comment # MostRecent(fetched)
    /\ res.value.action # MostRecent(fetched).body.classification
    /\ res.value.comment.created_at < MostRecent(fetched).created_at

\* C9: when the most recent bot comment is fresh and below minConfidence and
\* either at most one bot comment is younger than 30 minutes or the second
\* recent one is below minConfidence too, the resolver returns unknown with
\* the most recent comment and its analysis.
C9_Unknown ==
    (/\ Decided
     /\ LatestAge <= 120
     /\ LatestConfidence < minConfidence
     /\ \/ Cardinality(RecentIdx(fetched, now)) <= 1
        \/ SecondRecent(fetched, now).body.confidence < minConfidence) =>
        res.value = [action |-> "unknown",
                     comment |-> MostRecent(fetched),
                     analysis |-> AnalysisOf(MostRecent(fetched), analyzedAt)]

C9_Witness ==
    /\ Decided
    /\ LatestAge <= 120
    /\ LatestConfidence < minConfidence
    /\ Cardinality(BotIdx(fetched)) = 2
    /\ \E i \in BotIdx(fetched) :
          /\ now - fetched[i].created_at = 30
          /\ fetched[i].body.confidence >= minConfidence
    /\ res.value.action = "unknown"

\* C10: every result of analyzeLatestJulesComment and of checkJulesComments
\* has an action, has comment and analysis both or neither, and an attached
\* analysis is the analysis of the attached comment.
WellFormed(v) ==
    /\ "action" \in DOMAIN v
    /\ "comment" \in DOMAIN v <=> "analysis" \in DOMAIN v
    /\ "comment" \in DOMAIN v =>
          \E t \in {analyzedAt, now} : v.analysis = AnalysisOf(v.comment, t)

C10_WellFormedResults ==
    /\ res.kind = "return" => WellFormed(res.value)
    /\ out.kind = "return" => WellFormed(out.value)

C10_Witness ==
    /\ pc = "done"
    /\ res.kind = "return"
    /\ res.path = "second"
    /\ "analysis" \in DOMAIN out.value
    /\ out.value.analysis.confidence # MostRecent(fetched).body.confidence

\* C12: a failure of the fetch, or of an analyzeComment call the resolver
\* makes, reaches the resolver's caller as an error; no result is returned.
SecondAnalysisDue ==
    /\ BotIdx(fetched) # {}
    /\ LatestAge <= 120
    /\ LatestConfidence < minConfidence
    /\ Cardinality(RecentIdx(fetched, now)) > 1

FailureMet ==
    \/ fault.fetch
    \/ fault.analyzer = 1 /\ BotIdx(fetched) # {}
    \/ fault.analyzer = 2 /\ SecondAnalysisDue

C12_FailurePropagates ==
    (pc = "resolved" /\ FailureMet) =>
        /\ res.kind = "throw"
        /\ "value" \notin DOMAIN res
        /\ res.error = IF fault.fetch THEN "fetch" ELSE "analyzer"

C12_Witness ==
    /\ pc = "resolved"
    /\ fault.analyzer = 2
    /\ SecondAnalysisDue
    /\ res.kind = "throw"
    /\ res.calls = 2

\* C13: checkJulesComments terminates, and it invokes the resolver (and the
\* fetch) at most maxRetries times, whichever attempts fail.
C13_TerminatesWithinBudget ==
    /\ [](Len(log) <= maxRetries /\ fetches <= maxRetries)
    /\ <>(pc = "done")

C13_Witness ==
    /\ pc = "done"
    /\ maxRetries >= 3
    /\ fetches = maxRetries
    /\ log[1].kind = "throw"
    /\ log[Len(log)].kind = "return"

\* The latest attempt of the run returned a result.
LastAttemptReturned == log # <<>> /\ log[Len(log)].kind = "return"

\* C14: the i-th wait (i from 0) lasts 1000 * 2^i ms; a wait follows each
\* failed attempt that has a successor, so none precedes attempt 0 and none
\* follows a successful attempt.
C14_BackoffDelays ==
    /\ \A i \in 1..Len(delays) : delays[i] = 1000 * 2 ^ (i - 1)
    /\ pc = "idle" => delays = <<>>
    /\ pc \in {"fetching", "sleeping"} => Len(delays) = Len(log)
    /\ (pc = "done" /\ LastAttemptReturned) => Len(delays) = Len(log) - 1
    /\ (pc = "done" /\ log # <<>>) => Len(delays) >= Len(log) - 1
    /\ (pc = "done" /\ log = <<>>) => delays = <<>>

C14_Witness ==
    /\ pc = "done"
    /\ LastAttemptReturned
    /\ delays = <<1000, 2000, 4000>>

\* C15: every failed attempt invokes onRetry once, with that attempt's error
\* and index, and the run goes on as with a hook that does nothing: it ends
\* only on a returned result or when maxRetries attempts have failed.
C15_HookPerFailure ==
    /\ Len(hooks) = Cardinality({i \in 1..Len(log) : log[i].kind = "throw"})
    /\ \A i \in 1..Len(hooks) :
          /\ log[i].kind = "throw"
          /\ hooks[i].attempt = i - 1
          /\ hooks[i].error = log[i].error
    /\ (pc = "done" /\ ~LastAttemptReturned) =>
          /\ Len(log) = maxRetries
          /\ out.value = [action |-> "no_action", retryCount |-> maxRetries]
    /\ (pc # "done" /\ log # <<>>) => Len(log) < maxRetries

C15_Witness ==
    /\ pc = "done"
    /\ LastAttemptReturned
    /\ Len(hooks) = 2
    /\ hooks[1] = [error |-> "analyzer", attempt |-> 0]
    /\ hooks[2] = [error |-> "fetch", attempt |-> 1]

\* C16: every attempt fetches once, and the result checkJulesComments
\* returns is the resolver's decision on the list the successful attempt
\* fetched, whatever an earlier attempt fetched.
C16_DecidesFromOwnFetch ==
    /\ fetches = Len(log)
    /\ (pc = "done" /\ LastAttemptReturned) =>
          /\ out.kind = "return"
          /\ WithoutRetryCount(out.value) =
                analyzeLatestJulesComment(fetched, minConfidence, analyzedAt,
                                          now, FALSE, 0).value

C16_Witness ==
    /\ pc = "done"
    /\ LastAttemptReturned
    /\ Len(log) >= 2
    /\ previous # <<>>
    /\ BotIdx(previous) # {}
    /\ fetched # <<>>
    /\ "comment" \in DOMAIN out.value
    /\ out.value.comment = fetched[1]
    /\ out.value.action \in Classifications
    /\ out.value.action # previous[1].body.classification

\* C19: every result of checkJulesComments carries retryCount, within
\* 0..maxRetries; for maxRetries >= 1 it equals maxRetries exactly when every
\* attempt failed, and a result of a successful attempt has it below
\* maxRetries.
C19_RetryCountRange ==
    pc = "done" =>
        /\ out.kind = "return"
        /\ "retryCount" \in DOMAIN out.value
        /\ out.value.retryCount \in 0..maxRetries
        /\ maxRetries >= 1 =>
              (out.value.retryCount = maxRetries <=> AllAttemptsThrew)
        /\ LastAttemptReturned => out.value.retryCount < maxRetries

C19_Witness ==
    /\ pc = "done"
    /\ LastAttemptReturned
    /\ Len(log) = maxRetries
    /\ maxRetries >= 3
    /\ out.value.retryCount = maxRetries - 1

\* C17: a result whose action is a classification carries an analysis with
\* confidence >= minConfidence of a comment that was at most 120 minutes old
\* when it was analyzed: a comment older than that never supplies the action.
C17_ActionFromFreshConfident ==
    (pc = "resolved" /\ res.kind = "return"
        /\ res.value.action \in Classifications) =>
        /\ "comment" \in DOMAIN res.value
        /\ "analysis" \in DOMAIN res.value
        /\ res.value.analysis.confidence >= minConfidence
        /\ res.value.analysis.age_minutes <= 120
        /\ \E t \in {analyzedAt, now} :
              res.value.analysis = AnalysisOf(res.value.comment, t)
        /\ analyzedAt - res.value.comment.created_at <= 120

C17_Witness ==
    /\ pc = "resolved"
    /\ res.kind = "return"
    /\ res.value.action \in Classifications
    /\ Len(res.analyzed) = 2
    /\ res.value.comment = res.analyzed[2]
    /\ res.value.analysis.confidence = minConfidence
    /\ res.value.analysis.age_minutes = 29

====
